---- MODULE Spec2Model ----
(***************************************************************************)
(* Model of the fov2d crate (FOV Visualization - Rust, 2D): sightline      *)
(* generation (common/fov.rs), segment intersection (common/math.rs), the  *)
(* wall-edge tables (common/fov.rs) and the 16-bit node builder            *)
(* (simple/fovmap_q16.rs, simple/builder.rs).                              *)
(*                                                                         *)
(* Numbers.  Every f64 of the program that the model needs is a multiple   *)
(* of 0.01 (0.5, 0.51, 0.25, tile corners, radii), so an f64 is modelled   *)
(* as the integer number of hundredths (fixed point, 1.0 = 100).  The      *)
(* intersection test only compares signs and magnitudes of products of     *)
(* coordinate differences, which scale uniformly, so the outcome is the    *)
(* one of exact arithmetic.  No sightline of the Single set passes through *)
(* a tile corner ((2p-1)(100n+51) = 1600(2s-1) has no solution, the left   *)
(* side being odd), so no comparison of the builder is decided by a        *)
(* rounding error of the f64 computation.                                  *)
(***************************************************************************)
EXTENDS Integers, Sequences, FiniteSets, TLC

VARIABLES
    pc,           \* position of the line generator / node builder
    rfov,         \* FovRadius of the current line set
    qfactor,      \* QFactor of the current line set
    lines,        \* Vec<Line> under construction / FovLines.inner
    n,            \* loop variable of the line generators
    circ_adj,     \* circular adjustment handed to build_fov_nodes_q16
    n_total,      \* number of candidate positions of the sweep
    iter,         \* number of completed loop iterations of the sweep
    dpri,         \* octant traversal value (u8)
    dsec,         \* octant traversal value (u8)
    dsec_target,  \* octant traversal value (u8)
    nodes,        \* Vec<FovNode16> under construction / returned
    mpc,          \* position of the intersection evaluation
    la,           \* first segment handed to Line::intersects
    lb,           \* second segment handed to Line::intersects
    hit,          \* la.intersects(lb)
    hit_rev,      \* lb.intersects(la)
    walls,        \* wall-edge segments looked up so far, per octant
    overflow_checks, \* the build panics on arithmetic overflow (debug profile)
    fovmap,       \* the FovMap16 built by FovMap16::new
    q_octant,     \* octant of the last query of the map
    q_radius,     \* radius of the last query of the map
    q_result,     \* outcome of FovOctant16::max_node_index
    tiles,        \* Vec<VisibleTile> returned by get_visible_tiles
    oct_i,        \* index of the scan of FovOctant16::new
    oct_r,        \* radius counter of the scan of FovOctant16::new
    node_indexes, \* node_indexes under construction in FovOctant16::new
    isect,        \* Option<Point> returned by Line::intersection in main
    oct_in,       \* octant and (dpri, dsec) handed to Octant::dpds_to_dxdy
    oct_out,      \* (dx, dy) returned by Octant::dpds_to_dxdy
    vec_in,       \* (x, y) handed to Vector::normalized
    vec_out       \* the Vector after Vector::normalize

vars == <<pc, rfov, qfactor, lines, n, circ_adj, n_total, iter, dpri, dsec,
          dsec_target, nodes, mpc, la, lb, hit, hit_rev, walls,
          overflow_checks, fovmap, q_octant, q_radius, q_result, tiles, isect,
          oct_i, oct_r, node_indexes,
          oct_in, oct_out, vec_in, vec_out>>

lineVars  == <<rfov, qfactor, lines, n>>
buildVars == <<circ_adj, n_total, iter, dpri, dsec, dsec_target, nodes>>
mathVars  == <<mpc, la, lb, hit, hit_rev>>
mapVars   == <<fovmap, q_octant, q_radius, q_result, tiles, oct_i, oct_r,
               node_indexes>>
pureVars  == <<oct_in, oct_out, vec_in, vec_out>>

(***************************************************************************)
(* Bounds of the model.                                                    *)
(***************************************************************************)
\* Segment endpoints handed to Line::intersects range over 0..MaxCoord.
MaxCoord == 2

\* Circular adjustments (hundredths) handed to the node builder: a radius
\* below zero, one below 16, the exact radius, the recommended 0.5, and
\* values up to one that culls nothing.
CircAdjs == {-1700, -100, 0, 50, 100, 300, 700}

(***************************************************************************)
(* Numbers                                                                 *)
(***************************************************************************)
\* `n as f64`: an integer as a fixed-point number of hundredths.
Flt(k) == k * 100

\* `b as u16` / `b as u8` of a bool.
B2I(b) == IF b THEN 1 ELSE 0

RECURSIVE Pow2(_)
\* 1u16 << k, for k < 16.
Pow2(k) == IF k = 0 THEN 1 ELSE 2 * Pow2(k - 1)

RECURSIVE BitOr(_, _)
\* a | b on unsigned integers.
BitOr(a, b) ==
    IF a = 0 THEN b
    ELSE IF b = 0 THEN a
    ELSE B2I(a % 2 = 1 \/ b % 2 = 1) + 2 * BitOr(a \div 2, b \div 2)

\* Bit i of an unsigned integer.
BitSet(m, i) == (m \div Pow2(i)) % 2 = 1

RECURSIVE CountOnes(_)
\* u16::count_ones
CountOnes(m) == IF m = 0 THEN 0 ELSE (m % 2) + CountOnes(m \div 2)

RECURSIVE SumRange(_, _)
\* (lo..hi).sum::<u32>() of a half-open range.
SumRange(lo, hi) == IF lo >= hi THEN 0 ELSE lo + SumRange(lo + 1, hi)

(***************************************************************************)
(* common/math.rs: Line                                                    *)
(***************************************************************************)
\* Line::new
Line(x1, y1, x2, y2) == [x1 |-> x1, y1 |-> y1, x2 |-> x2, y2 |-> y2]

\* Line::shifted_by(dx, dy): translates both endpoints.
shifted_by(l, dx, dy) == Line(l.x1 + dx, l.y1 + dy, l.x2 + dx, l.y2 + dy)

\* denom of Line::intersects
Denom(self, other) ==
    (self.x1 - self.x2) * (other.y1 - other.y2)
  - (self.y1 - self.y2) * (other.x1 - other.x2)

\* t_num of Line::intersects
TNum(self, other) ==
    (self.x1 - other.x1) * (other.y1 - other.y2)
  - (self.y1 - other.y1) * (other.x1 - other.x2)

\* u_num of Line::intersects
UNum(self, other) ==
    (self.x1 - other.x1) * (self.y1 - self.y2)
  - (self.y1 - other.y1) * (self.x1 - self.x2)

\* Line::intersects with the comparisons made non-strict (open interval).
IntersectsOpen(self, other) ==
    LET denom == Denom(self, other)
        t_num == TNum(self, other)
        u_num == UNum(self, other)
    IN  IF denom = 0 THEN FALSE
        ELSE IF (t_num >= 0 /\ t_num >= denom) \/ (t_num <= 0 /\ t_num <= denom)
             THEN FALSE
        ELSE IF (u_num >= 0 /\ u_num >= denom) \/ (u_num <= 0 /\ u_num <= denom)
             THEN FALSE
        ELSE TRUE

\* Line::intersects without the test of `u`.
IntersectsNoU(self, other) ==
    LET denom == Denom(self, other)
        t_num == TNum(self, other)
    IN  IF denom = 0 THEN FALSE
        ELSE IF (t_num > 0 /\ t_num > denom) \/ (t_num < 0 /\ t_num < denom)
             THEN FALSE
        ELSE TRUE

\* Line::intersects
Intersects(self, other) ==
    LET denom == Denom(self, other)
        t_num == TNum(self, other)
        u_num == UNum(self, other)
    IN  IF denom = 0 THEN FALSE
        ELSE IF (t_num > 0 /\ t_num > denom) \/ (t_num < 0 /\ t_num < denom)
             THEN FALSE
        ELSE IF (u_num > 0 /\ u_num > denom) \/ (u_num < 0 /\ u_num < denom)
             THEN FALSE
        ELSE TRUE

(***************************************************************************)
(* common/fov.rs: FovRadius, QFactor, Octant, edge tables                  *)
(***************************************************************************)
FovRadius == {"R16", "R32", "R64", "R128"}
QFactor   == {"Single", "Double"}
Octant    == {"O1", "O2", "O3", "O4", "O5", "O6", "O7", "O8"}

\* FovRadius::to_int with the R32 arm mistyped.
to_int_typo(r) ==
    CASE r = "R16" -> 16 [] r = "R32" -> 23 [] r = "R64" -> 64 [] r = "R128" -> 128

\* FovRadius::to_int
to_int(r) ==
    CASE r = "R16" -> 16 [] r = "R32" -> 32 [] r = "R64" -> 64 [] r = "R128" -> 128

\* FovRadius::to_flt
to_flt(r) ==
    CASE r = "R16" -> Flt(16) [] r = "R32" -> Flt(32)
      [] r = "R64" -> Flt(64) [] r = "R128" -> Flt(128)

\* body_lines with the second edge on the far side of the tile.
body_lines_far ==
    << Line(Flt(0), Flt(0), Flt(0), Flt(1)),
       Line(Flt(0), Flt(1), Flt(1), Flt(1)) >>

\* body_lines
body_lines ==
    << Line(Flt(0), Flt(0), Flt(0), Flt(1)),
       Line(Flt(0), Flt(0), Flt(1), Flt(0)) >>

\* wall_n_line
wall_n_line(octant) ==
    CASE octant = "O1" -> Line(Flt(0), Flt(1), Flt(1), Flt(1))
      [] octant = "O2" -> Line(Flt(1), Flt(0), Flt(1), Flt(1))
      [] octant = "O3" -> Line(Flt(1), Flt(0), Flt(1), Flt(1))
      [] octant = "O4" -> Line(Flt(0), Flt(1), Flt(1), Flt(1))
      [] octant = "O5" -> Line(Flt(0), Flt(0), Flt(1), Flt(0))
      [] octant = "O6" -> Line(Flt(0), Flt(0), Flt(0), Flt(1))
      [] octant = "O7" -> Line(Flt(0), Flt(0), Flt(0), Flt(1))
      [] octant = "O8" -> Line(Flt(0), Flt(0), Flt(1), Flt(0))

\* wall_w_line with the O5 arm copied from the O6 arm.
wall_w_line_copied(octant) ==
    CASE octant = "O1" -> Line(Flt(0), Flt(0), Flt(0), Flt(1))
      [] octant = "O2" -> Line(Flt(0), Flt(0), Flt(1), Flt(0))
      [] octant = "O3" -> Line(Flt(0), Flt(1), Flt(1), Flt(1))
      [] octant = "O4" -> Line(Flt(1), Flt(0), Flt(1), Flt(1))
      [] octant = "O5" -> Line(Flt(0), Flt(1), Flt(1), Flt(1))
      [] octant = "O6" -> Line(Flt(0), Flt(1), Flt(1), Flt(1))
      [] octant = "O7" -> Line(Flt(0), Flt(0), Flt(1), Flt(0))
      [] octant = "O8" -> Line(Flt(0), Flt(0), Flt(0), Flt(1))

\* wall_w_line
wall_w_line(octant) ==
    CASE octant = "O1" -> Line(Flt(0), Flt(0), Flt(0), Flt(1))
      [] octant = "O2" -> Line(Flt(0), Flt(0), Flt(1), Flt(0))
      [] octant = "O3" -> Line(Flt(0), Flt(1), Flt(1), Flt(1))
      [] octant = "O4" -> Line(Flt(1), Flt(0), Flt(1), Flt(1))
      [] octant = "O5" -> Line(Flt(1), Flt(0), Flt(1), Flt(1))
      [] octant = "O6" -> Line(Flt(0), Flt(1), Flt(1), Flt(1))
      [] octant = "O7" -> Line(Flt(0), Flt(0), Flt(1), Flt(0))
      [] octant = "O8" -> Line(Flt(0), Flt(0), Flt(0), Flt(1))

(***************************************************************************)
(* common/fov.rs: get_fov_lines                                            *)
(***************************************************************************)
\* p0pri, p0sec: the tile centre (0.5, 0.5).
p0pri == 50
p0sec == 50

\* Line n of get_fov_lines_single with the end point just short of the
\* neighbouring tile (0.49 for 0.51).
SingleLineShort(r, k) ==
    Line(p0pri, p0sec, p0pri + to_flt(r), p0sec + (Flt(k) + 49))

\* Line n of get_fov_lines_single: dpri = radius, dsec = n + 0.51.
SingleLine(r, k) ==
    Line(p0pri, p0sec, p0pri + to_flt(r), p0sec + (Flt(k) + 51))

\* line_i of get_fov_lines_double.
DoubleFirst(r) == Line(p0pri, p0sec, p0pri + to_flt(r), p0sec + 25)

\* line_n1 of get_fov_lines_double with the sign of the quarter-tile offset
\* flipped (the end point of line_n2).
DoubleLowFlipped(r, k) ==
    Line(p0pri, p0sec, p0pri + to_flt(r), p0sec + Flt(k) + 25)

\* line_n1 of get_fov_lines_double.
DoubleLow(r, k) == Line(p0pri, p0sec, p0pri + to_flt(r), p0sec + Flt(k) - 25)

\* line_n2 of get_fov_lines_double.
DoubleHigh(r, k) == Line(p0pri, p0sec, p0pri + to_flt(r), p0sec + Flt(k) + 25)

\* line_f of get_fov_lines_double.
DoubleFinal(r) == Line(p0pri, p0sec, p0pri + to_flt(r), p0sec + to_flt(r) - 25)

\* get_fov_lines(rfov, qfactor): dispatch on the Q-factor, up to the first
\* loop test of the chosen generator.
GetFovLines(r, q) ==
    /\ pc = "idle"
    /\ rfov' = r
    /\ qfactor' = q
    /\ IF q = "Single"
       THEN /\ lines' = <<>>
            /\ n' = 0
            /\ pc' = "single"
       ELSE /\ lines' = <<DoubleFirst(r)>>
            /\ n' = 1
            /\ pc' = "double"
    /\ UNCHANGED <<overflow_checks, mapVars, isect, pureVars,
                 buildVars, mathVars, walls>>

\* One iteration of `for n in 0..rfov.to_int()` of get_fov_lines_single.
SingleStep ==
    /\ pc = "single"
    /\ n < to_int(rfov)
    /\ lines' = Append(lines, SingleLine(rfov, n))
    /\ n' = n + 1
    /\ UNCHANGED <<overflow_checks, mapVars, isect, pureVars,
                 pc, rfov, qfactor, buildVars, mathVars, walls>>

\* Loop exit and return of get_fov_lines_single.
SingleReturn ==
    /\ pc = "single"
    /\ ~(n < to_int(rfov))
    /\ pc' = "lines_done"
    /\ UNCHANGED <<overflow_checks, mapVars, isect, pureVars,
                 lineVars, buildVars, mathVars, walls>>

\* One iteration of `for n in 1..rfov.to_int()` of get_fov_lines_double.
DoubleStep ==
    /\ pc = "double"
    /\ n < to_int(rfov)
    /\ lines' = lines \o <<DoubleLow(rfov, n), DoubleHigh(rfov, n)>>
    /\ n' = n + 1
    /\ UNCHANGED <<overflow_checks, mapVars, isect, pureVars,
                 pc, rfov, qfactor, buildVars, mathVars, walls>>

\* Loop exit, final line and return of get_fov_lines_double.
DoubleReturn ==
    /\ pc = "double"
    /\ ~(n < to_int(rfov))
    /\ lines' = Append(lines, DoubleFinal(rfov))
    /\ pc' = "lines_done"
    /\ UNCHANGED <<overflow_checks, mapVars, isect, pureVars,
                 rfov, qfactor, n, buildVars, mathVars, walls>>

(***************************************************************************)
(* simple/fovmap_q16.rs: build_fov_nodes_q16                               *)
(***************************************************************************)
\* FovNode16
FovNode16(body, p, s) == [body |-> body, dpri |-> p, dsec |-> s]

\* u16::MAX
U16Max == 65535

\* The seed node with i16::MAX for u16::MAX.
OriginNodeSigned == FovNode16(32767, 0, 0)

\* The seed node: body u16::MAX at offset (0, 0).
OriginNode == FovNode16(U16Max, 0, 0)

\* n_total with the range one short: (0..radius + 1).sum() - 1.
NTotalShort(r) == SumRange(0, to_int(r) + 1) - 1

\* n_total = (0..rfov.to_int() as u32 + 2).sum::<u32>() - 1
NTotal(r) == SumRange(0, to_int(r) + 2) - 1

\* The traversal update sweeping each row from dsec = dpri down to 0.
AdvanceDescending(p, s, t) ==
    LET sec_eq == (s = 0)
    IN  [dpri        |-> p + B2I(sec_eq),
         dsec        |-> IF sec_eq THEN p + 1 ELSE s - 1,
         dsec_target |-> t + B2I(sec_eq)]

\* The traversal update with dsec_target never raised.
AdvanceFixedTarget(p, s, t) ==
    LET sec_eq == (s = t)
    IN  [dpri        |-> p + B2I(sec_eq),
         dsec        |-> s * B2I(~sec_eq) + B2I(~sec_eq),
         dsec_target |-> t]

\* The traversal update with the negation of sec_eq dropped from the factor
\* of dsec: dsec = dsec * sec_eq + !sec_eq.
AdvanceNoReset(p, s, t) ==
    LET sec_eq == (s = t)
    IN  [dpri        |-> p + B2I(sec_eq),
         dsec        |-> s * B2I(sec_eq) + B2I(~sec_eq),
         dsec_target |-> t + B2I(sec_eq)]

\* The traversal update at the head of the loop body:
\*   sec_eq = dsec == dsec_target; dpri += sec_eq;
\*   dsec = dsec * !sec_eq + !sec_eq; dsec_target += sec_eq.
Advance(p, s, t) ==
    LET sec_eq == (s = t)
    IN  [dpri        |-> p + B2I(sec_eq),
         dsec        |-> s * B2I(~sec_eq) + B2I(~sec_eq),
         dsec_target |-> t + B2I(sec_eq)]

\* dist_u8(dpri, dsec), squared: the square of the 2D hypotenuse.
dist_u8_sq(p, s) == Flt(p) * Flt(p) + Flt(s) * Flt(s)

\* The culling test with >= for >.
CulledInclusive(p, s, radius) ==
    radius < 0 \/ dist_u8_sq(p, s) >= radius * radius

\* The culling test `dist_u8(dpri, dsec) > radius`, on squares (a distance
\* is never negative, so it exceeds every negative radius).
Culled(p, s, radius) ==
    radius < 0 \/ dist_u8_sq(p, s) > radius * radius

RECURSIVE BodyFold(_, _, _, _, _)
\* The loop over fov_lines.iter().enumerate(), from bit_ix on.  Without
\* overflow checks `1u16 << bit_ix` masks the shift amount to four bits;
\* with them the build panics before it gets here (BuildStep).
BodyFold(fov_lines, bit_ix, body, body_line_1, body_line_2) ==
    IF bit_ix >= Len(fov_lines) THEN body
    ELSE LET fov_line == fov_lines[bit_ix + 1]
             to_set   == Pow2(bit_ix % 16)
             b1 == BitOr(body, to_set * B2I(Intersects(fov_line, body_line_1)))
             b2 == BitOr(b1,   to_set * B2I(Intersects(fov_line, body_line_2)))
         IN  \* (the test makes b2 a value before the next iteration)
             IF b2 >= 0
             THEN BodyFold(fov_lines, bit_ix + 1, b2, body_line_1, body_line_2)
             ELSE 0

\* The body mask with the second body edge left out.
BodyMaskOneEdge(fov_lines, p, s) ==
    LET body_line_1 == shifted_by(body_lines[1], Flt(p), Flt(s))
    IN  BodyFold(fov_lines, 0, 0, body_line_1, body_line_1)

\* The body mask of the node at (dpri, dsec): both body edges shifted by
\* the offset and tested against every sightline.
BodyMask(fov_lines, p, s) ==
    LET body_line_1 == shifted_by(body_lines[1], Flt(p), Flt(s))
        body_line_2 == shifted_by(body_lines[2], Flt(p), Flt(s))
    IN  BodyFold(fov_lines, 0, 0, body_line_1, body_line_2)

\* radius = rfov.to_flt() + circ_adj
Radius == to_flt(rfov) + circ_adj

\* Line sets the node builder is run on in this model.
BuildRadii == {"R16"}

\* The configuration the 16-bit builder is made for.
Is16Bit(r, q) == r = "R16" /\ q = "Single"

\* FovMap16::new(rfov, qfactor, circ_adj) with a radius or Q-factor that
\* fails one of its two assertions: nothing is built.
FovMap16NewFail(r, q) ==
    /\ pc = "idle"
    /\ ~Is16Bit(r, q)
    /\ rfov' = r
    /\ qfactor' = q
    /\ pc' = "assert_failed"
    /\ UNCHANGED <<overflow_checks, mapVars, isect, pureVars,
                 lines, n, buildVars, mathVars, walls>>

\* build_fov_nodes_q16 of simple/builder.rs on a line set that fails its
\* assertion `rfov == R16 && fov_lines.qfactor == Single`.
BuilderAssertFail ==
    /\ pc = "lines_done"
    /\ ~Is16Bit(rfov, qfactor)
    /\ pc' = "assert_failed"
    /\ UNCHANGED <<overflow_checks, mapVars, isect, pureVars,
                 lineVars, buildVars, mathVars, walls>>

\* build_fov_nodes_q16(rfov, &fov_lines, circ_adj) of simple/fovmap_q16.rs
\* for the line set just generated, up to the first loop test.  It has no
\* assertion of its own.  (For R16/Single this is also the builder of
\* simple/builder.rs past its assertion, and the call in FovMap16::new.)
\* `oc` is the build profile: overflow checks on or off.
BuildFovNodesQ16(c, oc) ==
    /\ pc = "lines_done"
    /\ rfov \in BuildRadii
    /\ circ_adj' = c
    /\ overflow_checks' = oc
    /\ n_total' = NTotal(rfov)
    /\ nodes' = <<OriginNode>>
    /\ dpri' = 0
    /\ dsec' = 0
    /\ dsec_target' = 0
    /\ iter' = 0
    /\ pc' = "build"
    /\ UNCHANGED <<mapVars, isect, pureVars, lineVars, mathVars, walls>>

\* One iteration of `for _ in 0..n_total`.  With overflow checks, a node
\* that is not culled and a line set of more than 16 lines end the build
\* in the panic of `1u16 << 16`; the vector of nodes is dropped.
BuildStep ==
    /\ pc = "build"
    /\ iter < n_total
    /\ LET adv == Advance(dpri, dsec, dsec_target)
           culled == Culled(adv.dpri, adv.dsec, Radius)
           panics == ~culled /\ overflow_checks /\ Len(lines) > 16
       IN  /\ dpri' = adv.dpri
           /\ dsec' = adv.dsec
           /\ dsec_target' = adv.dsec_target
           /\ nodes' = IF culled THEN nodes
                       ELSE IF panics THEN <<>>
                       ELSE Append(nodes,
                                   FovNode16(BodyMask(lines, adv.dpri, adv.dsec),
                                             adv.dpri, adv.dsec))
           /\ pc' = IF panics THEN "shift_overflow" ELSE pc
    /\ iter' = iter + 1
    /\ UNCHANGED <<overflow_checks, mapVars, isect, pureVars,
                 circ_adj, n_total, lineVars, mathVars, walls>>

\* Loop exit and return of build_fov_nodes_q16.
BuildReturn ==
    /\ pc = "build"
    /\ ~(iter < n_total)
    /\ pc' = "done"
    /\ UNCHANGED <<overflow_checks, mapVars, isect, pureVars,
                 buildVars, lineVars, mathVars, walls>>

(***************************************************************************)
(* simple/fovmap_q16.rs: FovOctant16, FovMap16; fovcalc_q16.rs             *)
(***************************************************************************)
\* FovOctant16::new(&nodes, rfov) as called by FovMap16::new once the
\* nodes are built (after `capacity = nodes.len() * 8`), up to the first
\* loop test.  The eight calls of FovMap16::new have the same arguments and
\* no effect but their result, so the scan is modelled once.
FovOctant16New ==
    /\ pc = "done"
    /\ Is16Bit(rfov, qfactor)
    /\ oct_i' = 0
    /\ oct_r' = 0
    /\ node_indexes' = <<>>
    /\ pc' = "octant_scan"
    /\ UNCHANGED <<overflow_checks, fovmap, q_octant, q_radius, q_result, tiles,
                 isect, pureVars, buildVars, lineVars, mathVars, walls>>

\* One iteration of `for (i, node) in nodes.iter().enumerate()`: push i - 1
\* and step r when node.dpri > r.
OctantScanStep ==
    /\ pc = "octant_scan"
    /\ oct_i < Len(nodes)
    /\ IF nodes[oct_i + 1].dpri > oct_r
       THEN /\ node_indexes' = Append(node_indexes, oct_i - 1)
            /\ oct_r' = oct_r + 1
       ELSE UNCHANGED <<node_indexes, oct_r>>
    /\ oct_i' = oct_i + 1
    /\ UNCHANGED <<overflow_checks, fovmap, q_octant, q_radius, q_result, tiles,
                 isect, pureVars, pc, buildVars, lineVars, mathVars, walls>>

\* Loop exit of FovOctant16::new: the index of the last node is pushed and
\* the octant returned; FovMap16::new returns the map of eight octants.
FovMap16Return ==
    /\ pc = "octant_scan"
    /\ ~(oct_i < Len(nodes))
    /\ node_indexes' = Append(node_indexes, Len(nodes) - 1)
    /\ fovmap' = [rfov     |-> rfov,
                  capacity |-> Len(nodes) * 8,
                  octants  |-> [o \in Octant |->
                                   [nodes        |-> nodes,
                                    node_indexes |-> node_indexes']]]
    /\ pc' = "map"
    /\ UNCHANGED <<overflow_checks, q_octant, q_radius, q_result, tiles, oct_i,
                 oct_r, isect, pureVars, buildVars, lineVars, mathVars, walls>>

\* Largest radius handed to max_node_index and get_visible_tiles.
MaxQueryRadius == 18

\* FovOctant16::max_node_index(radius) on an octant of the map: the
\* assertion `radius < 17`, then the indexing of node_indexes.
MaxNodeIndex(o, radius) ==
    /\ pc = "map"
    /\ q_octant' = o
    /\ q_radius' = radius
    /\ LET self == fovmap.octants[o]
       IN  q_result' =
               IF ~(radius < 17)
               THEN [kind |-> "assert_failed", value |-> 0]
               ELSE IF radius >= Len(self.node_indexes)
               THEN [kind |-> "index_out_of_bounds", value |-> 0]
               ELSE [kind |-> "ok", value |-> self.node_indexes[radius + 1]]
    /\ pc' = "queried"
    /\ UNCHANGED <<overflow_checks, fovmap, tiles, oct_i, oct_r, node_indexes, isect,
                 pureVars, buildVars, lineVars, mathVars, walls>>

\* get_visible_tiles(fovmap, r): a vector with capacity fovmap.capacity(),
\* returned without a single push.
GetVisibleTiles(r) ==
    /\ pc = "map"
    /\ q_radius' = r
    /\ tiles' = <<>>
    /\ pc' = "tiles_done"
    /\ UNCHANGED <<overflow_checks, fovmap, q_octant, q_result, oct_i, oct_r,
                 node_indexes, isect,
                 pureVars, buildVars, lineVars, mathVars, walls>>

(***************************************************************************)
(* Specification of line generation and node building                      *)
(***************************************************************************)
NoLine == Line(0, 0, 0, 0)

\* No map built, no query made, no pure function evaluated.
NoMap    == [rfov |-> "R16", capacity |-> 0, octants |-> <<>>]
NoResult == [kind |-> "none", value |-> 0]
NoPoint  == [some |-> FALSE, xnum |-> 0, ynum |-> 0, den |-> 1]
NoOctIn  == [octant |-> "O1", dpri |-> 0, dsec |-> 0]
NoVec    == [x |-> 0, y |-> 0]
NoOut    == [kind |-> "none"]

(***************************************************************************)
(* The intersection probe of main                                          *)
(***************************************************************************)
Abs(v) == IF v < 0 THEN -v ELSE v

RECURSIVE Gcd(_, _)
Gcd(a, b) == IF b = 0 THEN a ELSE Gcd(b, a % b)

\* Point::new(x, y) for x = xnum / den and y = ynum / den: the two
\* coordinates as fractions in lowest terms over a common positive
\* denominator.
Point(xnum, ynum, den) ==
    LET g == Gcd(Gcd(Abs(xnum), Abs(ynum)), Abs(den))
        k == IF den < 0 THEN -g ELSE g
    IN  [some |-> TRUE, xnum |-> xnum \div k, ynum |-> ynum \div k,
         den |-> den \div k]

\* Line::intersection with the point taken along `u` instead of `t`.
IntersectionAlongU(self, other) ==
    LET denom == Denom(self, other)
        t_num == TNum(self, other)
        u_num == UNum(self, other)
    IN  IF denom = 0
        THEN NoPoint
        ELSE IF (t_num > 0 /\ t_num > denom) \/ (t_num < 0 /\ t_num < denom)
        THEN NoPoint
        ELSE IF (u_num > 0 /\ u_num > denom) \/ (u_num < 0 /\ u_num < denom)
        THEN NoPoint
        ELSE Point(self.x1 * denom + u_num * (self.x2 - self.x1),
                   self.y1 * denom + u_num * (self.y2 - self.y1), denom)

\* Line::intersection(self, other) -> Option<Point>.  With t = t_num / denom
\* the point (x1 + t * (x2 - x1), y1 + t * (y2 - y1)) is kept as the
\* fractions xnum / den and ynum / den.
Intersection(self, other) ==
    LET denom == Denom(self, other)
        t_num == TNum(self, other)
        u_num == UNum(self, other)
    IN  IF denom = 0
        THEN NoPoint
        ELSE IF (t_num > 0 /\ t_num > denom) \/ (t_num < 0 /\ t_num < denom)
        THEN NoPoint
        ELSE IF (u_num > 0 /\ u_num > denom) \/ (u_num < 0 /\ u_num < denom)
        THEN NoPoint
        ELSE Point(self.x1 * denom + t_num * (self.x2 - self.x1),
                   self.y1 * denom + t_num * (self.y2 - self.y1), denom)

\* line_dp8 of main: Line::new(8.0, 0.0, 8.0, 1.0).
line_dp8 == Line(Flt(8), Flt(0), Flt(8), Flt(1))

\* main: rfov = R16, qfactor = Single, lines1 = get_fov_lines(rfov, qfactor),
\* isect_dp8 = lines1[0].clone().intersection(line_dp8).
MainProbe ==
    /\ pc = "lines_done"
    /\ rfov = "R16"
    /\ qfactor = "Single"
    /\ isect' = Intersection(lines[1], line_dp8)
    /\ pc' = "probed"
    /\ UNCHANGED <<overflow_checks, mapVars, pureVars,
                 lineVars, buildVars, mathVars, walls>>

NewIdle ==
    /\ overflow_checks = FALSE
    /\ fovmap = NoMap
    /\ q_octant = "O1"
    /\ q_radius = 0
    /\ q_result = NoResult
    /\ tiles = <<>>
    /\ oct_i = 0
    /\ oct_r = 0
    /\ node_indexes = <<>>
    /\ isect = NoPoint
    /\ oct_in = NoOctIn
    /\ oct_out = <<0, 0>>
    /\ vec_in = NoVec
    /\ vec_out = NoOut

Init ==
    /\ pc = "idle"
    /\ rfov = "R16"
    /\ qfactor = "Single"
    /\ lines = <<>>
    /\ n = 0
    /\ circ_adj = 0
    /\ n_total = 0
    /\ iter = 0
    /\ dpri = 0
    /\ dsec = 0
    /\ dsec_target = 0
    /\ nodes = <<>>
    /\ mpc = "off"
    /\ la = NoLine
    /\ lb = NoLine
    /\ hit = FALSE
    /\ hit_rev = FALSE
    /\ walls = <<>>
    /\ NewIdle

Next ==
    \/ \E r \in FovRadius, q \in QFactor : GetFovLines(r, q)
    \/ SingleStep
    \/ SingleReturn
    \/ DoubleStep
    \/ DoubleReturn
    \/ \E r \in FovRadius, q \in QFactor : FovMap16NewFail(r, q)
    \/ BuilderAssertFail
    \/ \E c \in CircAdjs, oc \in BOOLEAN : BuildFovNodesQ16(c, oc)
    \/ BuildStep
    \/ BuildReturn
    \/ FovOctant16New
    \/ OctantScanStep
    \/ FovMap16Return
    \/ \E o \in Octant, radius \in 0..MaxQueryRadius : MaxNodeIndex(o, radius)
    \/ \E r \in 0..MaxQueryRadius : GetVisibleTiles(r)
    \/ MainProbe

Spec == Init /\ [][Next]_vars

(***************************************************************************)
(* Specification of the intersection test on bounded segments              *)
(***************************************************************************)
Coords == 0..MaxCoord

Segments == [x1 : Coords, y1 : Coords, x2 : Coords, y2 : Coords]

InitMath ==
    /\ pc = "off"
    /\ rfov = "R16"
    /\ qfactor = "Single"
    /\ lines = <<>>
    /\ n = 0
    /\ circ_adj = 0
    /\ n_total = 0
    /\ iter = 0
    /\ dpri = 0
    /\ dsec = 0
    /\ dsec_target = 0
    /\ nodes = <<>>
    /\ mpc = "input"
    /\ la \in Segments
    /\ lb \in Segments
    /\ hit = FALSE
    /\ hit_rev = FALSE
    /\ walls = <<>>
    /\ NewIdle

\* la.intersects(lb) and lb.intersects(la).
IntersectsCall ==
    /\ mpc = "input"
    /\ hit' = Intersects(la, lb)
    /\ hit_rev' = Intersects(lb, la)
    /\ mpc' = "tested"
    /\ UNCHANGED <<overflow_checks, mapVars, isect, pureVars,
                 pc, lineVars, buildVars, la, lb, walls>>

NextMath == IntersectsCall

SpecMath == InitMath /\ [][NextMath]_vars

(***************************************************************************)
(* Specification of the wall-edge lookups                                  *)
(***************************************************************************)
\* Octant::dpds_to_dxdy_flt with the sign of the O3 arm dropped.
dpds_to_dxdy_flt_unsigned(octant, dp, ds) ==
    CASE octant = "O1" -> Point(dp, ds, 1)
      [] octant = "O2" -> Point(ds, dp, 1)
      [] octant = "O3" -> Point(ds, dp, 1)
      [] octant = "O4" -> Point(-dp, ds, 1)
      [] octant = "O5" -> Point(-dp, -ds, 1)
      [] octant = "O6" -> Point(-ds, -dp, 1)
      [] octant = "O7" -> Point(ds, -dp, 1)
      [] octant = "O8" -> Point(dp, -ds, 1)

\* Octant::dpds_to_dxdy_flt(&self, dp, ds) -> Point.
dpds_to_dxdy_flt(octant, dp, ds) ==
    CASE octant = "O1" -> Point(dp, ds, 1)
      [] octant = "O2" -> Point(ds, dp, 1)
      [] octant = "O3" -> Point(-ds, dp, 1)
      [] octant = "O4" -> Point(-dp, ds, 1)
      [] octant = "O5" -> Point(-dp, -ds, 1)
      [] octant = "O6" -> Point(-ds, -dp, 1)
      [] octant = "O7" -> Point(ds, -dp, 1)
      [] octant = "O8" -> Point(dp, -ds, 1)

\* Sub-tile deltas handed to the transform: the tile centre and half a tile
\* either way.
FltDeltas == {-50, 0, 50}

\* octant.dpds_to_dxdy_flt(dp, ds); the point returned is kept in oct_out.
DpdsToDxdyFlt(octant, dp, ds) ==
    /\ mpc = "off"
    /\ pc = "off"
    /\ oct_in' = [octant |-> octant, dpri |-> dp, dsec |-> ds]
    /\ oct_out' = dpds_to_dxdy_flt(octant, dp, ds)
    /\ UNCHANGED <<overflow_checks, mapVars, isect, vec_in, vec_out,
                 pc, lineVars, buildVars, mathVars, walls>>

InitWalls ==
    /\ pc = "off"
    /\ rfov = "R16"
    /\ qfactor = "Single"
    /\ lines = <<>>
    /\ n = 0
    /\ circ_adj = 0
    /\ n_total = 0
    /\ iter = 0
    /\ dpri = 0
    /\ dsec = 0
    /\ dsec_target = 0
    /\ nodes = <<>>
    /\ mpc = "off"
    /\ la = NoLine
    /\ lb = NoLine
    /\ hit = FALSE
    /\ hit_rev = FALSE
    /\ walls = <<>>
    /\ NewIdle

\* wall_n_line(octant) and wall_w_line(octant) for an octant not yet
\* looked up.
WallLookup(octant) ==
    /\ mpc = "off"
    /\ pc = "off"
    /\ octant \notin DOMAIN walls
    /\ walls' = walls @@ (octant :> [n |-> wall_n_line(octant),
                                     w |-> wall_w_line(octant)])
    /\ UNCHANGED <<overflow_checks, mapVars, isect, pureVars,
                 pc, lineVars, buildVars, mathVars>>

NextWalls ==
    \/ \E octant \in Octant : WallLookup(octant)
    \/ \E octant \in Octant, dp \in FltDeltas, ds \in FltDeltas :
          DpdsToDxdyFlt(octant, dp, ds)

SpecWalls == InitWalls /\ [][NextWalls]_vars

(***************************************************************************)
(* Specification of the octant transform                                   *)
(***************************************************************************)
\* Largest primary and secondary delta handed to the transform.
MaxPriSec == 128

\* `dpri as i16`: a u16 reinterpreted as a 16-bit two's-complement value.
AsI16(v) == IF v >= 32768 THEN v - 65536 ELSE v

\* Octant::dpds_to_dxdy with octant 6 repeating the secondary delta.
dpds_to_dxdy_repeat(octant, dpri_in, dsec_in) ==
    LET dp == AsI16(dpri_in)
        ds == AsI16(dsec_in)
    IN  CASE octant = "O1" -> <<dp, ds>>
          [] octant = "O2" -> <<ds, dp>>
          [] octant = "O3" -> <<-ds, dp>>
          [] octant = "O4" -> <<-dp, ds>>
          [] octant = "O5" -> <<-dp, -ds>>
          [] octant = "O6" -> <<-ds, -ds>>
          [] octant = "O7" -> <<ds, -dp>>
          [] octant = "O8" -> <<dp, -ds>>

\* Octant::dpds_to_dxdy(&self, dpri, dsec) -> (dx, dy).
dpds_to_dxdy(octant, dpri_in, dsec_in) ==
    LET dp == AsI16(dpri_in)
        ds == AsI16(dsec_in)
    IN  CASE octant = "O1" -> <<dp, ds>>
          [] octant = "O2" -> <<ds, dp>>
          [] octant = "O3" -> <<-ds, dp>>
          [] octant = "O4" -> <<-dp, ds>>
          [] octant = "O5" -> <<-dp, -ds>>
          [] octant = "O6" -> <<-ds, -dp>>
          [] octant = "O7" -> <<ds, -dp>>
          [] octant = "O8" -> <<dp, -ds>>

\* Everything outside the pure-function specifications is idle.
CoreIdle ==
    /\ pc = "off"
    /\ rfov = "R16"
    /\ qfactor = "Single"
    /\ lines = <<>>
    /\ n = 0
    /\ circ_adj = 0
    /\ n_total = 0
    /\ iter = 0
    /\ dpri = 0
    /\ dsec = 0
    /\ dsec_target = 0
    /\ nodes = <<>>
    /\ la = NoLine
    /\ lb = NoLine
    /\ hit = FALSE
    /\ hit_rev = FALSE
    /\ walls = <<>>
    /\ overflow_checks = FALSE
    /\ fovmap = NoMap
    /\ q_octant = "O1"
    /\ q_radius = 0
    /\ q_result = NoResult
    /\ tiles = <<>>
    /\ oct_i = 0
    /\ oct_r = 0
    /\ node_indexes = <<>>
    /\ isect = NoPoint

InitOctant ==
    /\ CoreIdle
    /\ mpc = "octant_in"
    /\ oct_in \in [octant : Octant, dpri : 0..MaxPriSec, dsec : 0..MaxPriSec]
    /\ oct_out = <<0, 0>>
    /\ vec_in = NoVec
    /\ vec_out = NoOut

\* octant.dpds_to_dxdy(dpri, dsec).
DpdsToDxdy ==
    /\ mpc = "octant_in"
    /\ oct_out' = dpds_to_dxdy(oct_in.octant, oct_in.dpri, oct_in.dsec)
    /\ mpc' = "octant_out"
    /\ UNCHANGED <<overflow_checks, mapVars, isect, oct_in, vec_in, vec_out,
                 pc, lineVars, buildVars, la, lb, hit, hit_rev, walls>>

NextOctant == DpdsToDxdy

SpecOctant == InitOctant /\ [][NextOctant]_vars

(***************************************************************************)
(* Specification of vector normalization                                   *)
(***************************************************************************)
\* Largest absolute vector component, and longest line made from a ray.
MaxVec == 4
MaxRayLen == 2

\* The f64 quotient num / sqrt(mag_sq), kept as its two operands.  IEEE 754
\* division does not trap: 0.0 / 0.0 is NaN, which is not finite.
FDivSqrt(num, mag_sq) ==
    [finite |-> mag_sq # 0, num |-> num, mag_sq |-> mag_sq]

\* base + f * len for an f64 quotient f; NaN propagates.
FMulAdd(base, f, len) ==
    [finite |-> f.finite, base |-> base, num |-> f.num * len,
     mag_sq |-> f.mag_sq]

\* Vector::magnitude, as the square of its result.
magnitude_sq(v) == v.x * v.x + v.y * v.y

\* Vector::normalize: self.x /= mag; self.y /= mag.
normalize(v) ==
    LET mag_sq == magnitude_sq(v)
    IN  [kind |-> "vector",
         x |-> FDivSqrt(v.x, mag_sq), y |-> FDivSqrt(v.y, mag_sq)]

InitVector ==
    /\ CoreIdle
    /\ mpc = "vec_in"
    /\ oct_in = NoOctIn
    /\ oct_out = <<0, 0>>
    /\ vec_in \in [x : -MaxVec..MaxVec, y : -MaxVec..MaxVec]
    /\ vec_out = NoOut

\* Vector::normalized(x, y).
VectorNormalized ==
    /\ mpc = "vec_in"
    /\ vec_out' = normalize(vec_in)
    /\ mpc' = "normalized"
    /\ UNCHANGED <<overflow_checks, mapVars, isect, oct_in, oct_out, vec_in,
                 pc, lineVars, buildVars, la, lb, hit, hit_rev, walls>>

\* Ray::normalized(x, y): r0 = (x, y), rv = Vector::normalized(x, y).
RayNormalized ==
    /\ mpc = "vec_in"
    /\ vec_out' = [normalize(vec_in) EXCEPT !.kind = "ray"]
    /\ mpc' = "normalized"
    /\ UNCHANGED <<overflow_checks, mapVars, isect, oct_in, oct_out, vec_in,
                 pc, lineVars, buildVars, la, lb, hit, hit_rev, walls>>

\* Line::from_ray(ray, length) for a ray at r0 = (x, y): the end point
\* (x2, y2) = r0 + Vector::normalized(r0.x, r0.y) * length.
LineFromRay(length) ==
    /\ mpc = "vec_in"
    /\ LET v == normalize(vec_in)
       IN  vec_out' = [kind |-> "line",
                       x |-> FMulAdd(vec_in.x, v.x, length),
                       y |-> FMulAdd(vec_in.y, v.y, length)]
    /\ mpc' = "normalized"
    /\ UNCHANGED <<overflow_checks, mapVars, isect, oct_in, oct_out, vec_in,
                 pc, lineVars, buildVars, la, lb, hit, hit_rev, walls>>

NextVector ==
    \/ VectorNormalized
    \/ RayNormalized
    \/ \E length \in 1..MaxRayLen : LineFromRay(length)

SpecVector == InitVector /\ [][NextVector]_vars

(***************************************************************************)
(* Properties                                                              *)
(***************************************************************************)
\* The two body edges of the tile at (p, s), written out: the segments
\* (p, s)-(p, s+1) and (p, s)-(p+1, s).
EdgeAlongSec(p, s) == Line(Flt(p), Flt(s), Flt(p), Flt(s + 1))
EdgeAlongPri(p, s) == Line(Flt(p), Flt(s), Flt(p + 1), Flt(s))

\* Positions in `nodes` of the nodes at offset (p, s).
NodesAt(p, s) == {k \in 1..Len(nodes) : nodes[k].dpri = p /\ nodes[k].dsec = s}

\* C1: in the returned R16/Single node sequence, bit i of a non-origin
\* node's body mask is set exactly when sightline i intersects one of the
\* two body edges translated to the node's offset.
C1_BodyBitIffEdgeHit ==
    (pc = "done" /\ Is16Bit(rfov, qfactor)) =>
        \A k \in 1..Len(nodes) :
            (nodes[k].dpri # 0 \/ nodes[k].dsec # 0) =>
                \A i \in 0..15 :
                    BitSet(nodes[k].body, i) <=>
                        \/ Intersects(lines[i + 1],
                                      EdgeAlongSec(nodes[k].dpri, nodes[k].dsec))
                        \/ Intersects(lines[i + 1],
                                      EdgeAlongPri(nodes[k].dpri, nodes[k].dsec))

\* A finished build holding the node (3, 1), which sightlines 2..9 cross.
C1_Witness ==
    /\ pc = "done"
    /\ Is16Bit(rfov, qfactor)
    /\ \E k \in 1..Len(nodes) :
          nodes[k] = FovNode16(1020, 3, 1)

\* C2: get_fov_lines returns 16/32, 32/64, 64/128, 128/256 lines for
\* R16, R32, R64, R128 with Single/Double.
C2_LineCount ==
    pc = "lines_done" =>
        Len(lines) =
            CASE rfov = "R16"  /\ qfactor = "Single" -> 16
              [] rfov = "R16"  /\ qfactor = "Double" -> 32
              [] rfov = "R32"  /\ qfactor = "Single" -> 32
              [] rfov = "R32"  /\ qfactor = "Double" -> 64
              [] rfov = "R64"  /\ qfactor = "Single" -> 64
              [] rfov = "R64"  /\ qfactor = "Double" -> 128
              [] rfov = "R128" /\ qfactor = "Single" -> 128
              [] rfov = "R128" /\ qfactor = "Double" -> 256

\* The Double line set of R32 has been returned.
C2_Witness ==
    /\ pc = "lines_done"
    /\ rfov = "R32"
    /\ qfactor = "Double"
    /\ lines[Len(lines)] = DoubleFinal("R32")

\* C3: with circular adjustment 0.5 the node (16, 0) is present with
\* exactly one body bit, and every node (16, s) with s > 0 has more than one.
C3_OuterRowBits ==
    (pc = "done" /\ Is16Bit(rfov, qfactor) /\ circ_adj = 50) =>
        /\ \E k \in 1..Len(nodes) : nodes[k].dpri = 16 /\ nodes[k].dsec = 0
        /\ \A k \in 1..Len(nodes) :
              nodes[k].dpri = 16 =>
                  IF nodes[k].dsec = 0
                  THEN CountOnes(nodes[k].body) = 1
                  ELSE CountOnes(nodes[k].body) > 1

\* A finished build with adjustment 0.5 holding a node (16, s), s > 0.
C3_Witness ==
    /\ pc = "done"
    /\ Is16Bit(rfov, qfactor)
    /\ circ_adj = 50
    /\ \E k \in 1..Len(nodes) : nodes[k].dpri = 16 /\ nodes[k].dsec > 0

\* C4: whatever the circular adjustment, the sequence starts with the
\* origin node (0, 0) with body 0xFFFF and holds no other node at (0, 0).
C4_OriginFirstAndOnly ==
    pc \in {"build", "done"} =>
        /\ Len(nodes) >= 1
        /\ nodes[1].dpri = 0 /\ nodes[1].dsec = 0
        /\ nodes[1].body = 65535
        /\ NodesAt(0, 0) = {1}

\* A finished build that culled nothing: 153 nodes.
C4_Witness ==
    /\ pc = "done"
    /\ circ_adj = 700
    /\ Len(nodes) = 153

\* C5: consecutive nodes are strictly increasing lexicographically in
\* (dpri, dsec).
C5_SweepOrder ==
    pc \in {"build", "done"} =>
        \A k \in 1..(Len(nodes) - 1) :
            \/ nodes[k].dpri < nodes[k + 1].dpri
            \/ /\ nodes[k].dpri = nodes[k + 1].dpri
               /\ nodes[k].dsec < nodes[k + 1].dsec

\* A finished build with a step inside a row and a step to the next row.
C5_Witness ==
    /\ pc = "done"
    /\ \E k \in 1..(Len(nodes) - 1) :
          nodes[k].dpri = nodes[k + 1].dpri /\ nodes[k].dsec > 0
    /\ \E k \in 1..(Len(nodes) - 1) :
          nodes[k].dpri = 15 /\ nodes[k + 1].dpri = 16

\* Euclidean distance of (p, s) does not exceed 16 + c, c in hundredths.
WithinRadius(p, s, c) ==
    /\ 1600 + c >= 0
    /\ 10000 * (p * p + s * s) <= (1600 + c) * (1600 + c)

\* C6: a position of the triangle 1 <= pri <= 16, 0 <= sec <= pri is in the
\* returned sequence, once, exactly when its Euclidean distance does not
\* exceed 16 + c; nothing outside the triangle appears but the origin.
C6_CircularCulling ==
    (pc = "done" /\ rfov = "R16") =>
        /\ \A p \in 1..16 : \A s \in 0..p :
              Cardinality(NodesAt(p, s)) =
                  IF WithinRadius(p, s, circ_adj) THEN 1 ELSE 0
        /\ \A k \in 1..Len(nodes) :
              \/ nodes[k].dpri = 0 /\ nodes[k].dsec = 0
              \/ /\ nodes[k].dpri \in 1..16
                 /\ nodes[k].dsec \in 0..nodes[k].dpri

\* A finished build with the exact radius: (16, 0) kept, (16, 1) culled.
C6_Witness ==
    /\ pc = "done"
    /\ rfov = "R16"
    /\ circ_adj = 0
    /\ NodesAt(16, 0) # {}
    /\ NodesAt(16, 1) = {}

\* C7 as stated: with circular adjustment 0.5 the node count is below 152
\* and above 130.
C7_Original ==
    (pc = "done" /\ Is16Bit(rfov, qfactor) /\ circ_adj = 50) =>
        Len(nodes) < 152 /\ Len(nodes) > 130

\* C7, amended: with circular adjustment 0.5 the node count is 122, the
\* origin included: below 152 and above 120, not above 130.
C7_NodeCount ==
    (pc = "done" /\ Is16Bit(rfov, qfactor) /\ circ_adj = 50) =>
        /\ Len(nodes) = 122
        /\ Len(nodes) < 152
        /\ Len(nodes) > 120

\* A finished build with adjustment 0.5 whose sweep reached the last row.
C7_Witness ==
    /\ pc = "done"
    /\ Is16Bit(rfov, qfactor)
    /\ circ_adj = 50
    /\ iter = 152
    /\ nodes[Len(nodes)].dpri = 16

\* n / d lies in the closed interval [0, 1], for d # 0.
InUnit(num, d) == 0 <= num * d /\ num * d <= d * d

\* Side of the point (x, y) with respect to the directed segment l:
\* positive, zero or negative.
Orient(l, x, y) == (l.x2 - l.x1) * (y - l.y1) - (l.y2 - l.y1) * (x - l.x1)

\* The directions of a and b are not parallel (and neither is a point).
NotParallel(a, b) ==
    (a.x2 - a.x1) * (b.y2 - b.y1) # (a.y2 - a.y1) * (b.x2 - b.x1)

\* Each segment has its end points on both sides of, or on, the other.
Straddle(a, b) ==
    /\ Orient(a, b.x1, b.y1) * Orient(a, b.x2, b.y2) <= 0
    /\ Orient(b, a.x1, a.y1) * Orient(b, a.x2, a.y2) <= 0

\* C8: intersects is true exactly when denom # 0 and t and u lie in [0, 1]:
\* non-parallel segments sharing a point, an end point included, intersect;
\* parallel and collinear ones never do.
C8_ClosedInterval ==
    mpc = "tested" =>
        /\ hit <=> /\ Denom(la, lb) # 0
                   /\ InUnit(TNum(la, lb), Denom(la, lb))
                   /\ InUnit(UNum(la, lb), Denom(la, lb))
        /\ hit <=> (NotParallel(la, lb) /\ Straddle(la, lb))

\* Two segments meeting only at an end point of each, reported as a hit.
C8_Witness ==
    /\ mpc = "tested"
    /\ la = Line(0, 0, 2, 0)
    /\ lb = Line(2, 0, 2, 2)
    /\ hit

\* C9: intersects(A, B) = intersects(B, A).
C9_Symmetric == mpc = "tested" => (hit = hit_rev)

\* Two crossing diagonals, a hit in both orders.
C9_Witness ==
    /\ mpc = "tested"
    /\ la = Line(0, 0, 2, 2)
    /\ lb = Line(0, 2, 2, 0)
    /\ hit /\ hit_rev

NorthPairs == {<<"O1", "O4">>, <<"O2", "O3">>, <<"O5", "O8">>, <<"O6", "O7">>}
WestPairs  == {<<"O1", "O8">>, <<"O2", "O7">>, <<"O3", "O6">>, <<"O4", "O5">>}

\* C10: wall_n_line agrees on (O1,O4), (O2,O3), (O5,O8), (O6,O7), wall_w_line
\* on (O1,O8), (O2,O7), (O3,O6), (O4,O5), and each table has 4 distinct
\* segments.
C10_WallPairs ==
    /\ \A pr \in NorthPairs :
          (pr[1] \in DOMAIN walls /\ pr[2] \in DOMAIN walls) =>
              walls[pr[1]].n = walls[pr[2]].n
    /\ \A pr \in WestPairs :
          (pr[1] \in DOMAIN walls /\ pr[2] \in DOMAIN walls) =>
              walls[pr[1]].w = walls[pr[2]].w
    /\ DOMAIN walls = Octant =>
          /\ Cardinality({walls[o].n : o \in Octant}) = 4
          /\ Cardinality({walls[o].w : o \in Octant}) = 4

\* Both tables looked up for all eight octants.
C10_Witness == DOMAIN walls = Octant

\* Position in `nodes` of the last node with primary distance r (0 if none).
LastAt(r) ==
    LET ks == {k \in 1..Len(nodes) : nodes[k].dpri = r}
    IN  IF ks = {} THEN 0 ELSE CHOOSE k \in ks : \A j \in ks : j <= k

\* C11 as stated: for R16/Single and any circular adjustment the table
\* node_indexes of every octant has length 17, and entry r is the index of
\* the last node whose dpri is r.
C11_Original ==
    pc = "map" =>
        \A o \in Octant :
            /\ Len(fovmap.octants[o].node_indexes) = 17
            /\ \A r \in 0..16 :
                  /\ LastAt(r) # 0
                  /\ fovmap.octants[o].node_indexes[r + 1] = LastAt(r) - 1

\* C12 as stated: with a radius other than R16 or a Q-factor other than
\* Single, FovMap16::new and build_fov_nodes_q16 end in an assertion failure
\* and produce no nodes and no map; with R16/Single they do not fail.
C12_Original ==
    /\ (~Is16Bit(rfov, qfactor) /\ pc \notin {"idle", "single", "double", "lines_done"})
          => (pc = "assert_failed" /\ nodes = <<>>)
    /\ Is16Bit(rfov, qfactor) => pc \notin {"assert_failed", "shift_overflow"}

\* C13 as stated: max_node_index fails for every radius above 16 and, on an
\* octant built by FovMap16::new, returns node_indexes[radius] for every
\* radius in 0..=16.
C13_Original ==
    pc = "queried" =>
        IF q_radius > 16
        THEN q_result.kind \in {"assert_failed", "index_out_of_bounds"}
        ELSE /\ q_result.kind = "ok"
             /\ q_result.value = fovmap.octants[q_octant].node_indexes[q_radius + 1]

\* C15 as stated: get_visible_tiles returns one entry per visible tile, and
\* the origin tile is always among them.
C15_Original ==
    pc = "tiles_done" =>
        /\ Len(tiles) >= 1
        /\ \E i \in 1..Len(tiles) : tiles[i].body

\* The (pri, sec) pair that an octant maps to (dx, dy), written from the
\* octant table alone.
dxdy_to_dpds(octant, dx, dy) ==
    CASE octant = "O1" -> <<dx, dy>>
      [] octant = "O2" -> <<dy, dx>>
      [] octant = "O3" -> <<dy, -dx>>
      [] octant = "O4" -> <<-dx, dy>>
      [] octant = "O5" -> <<-dx, -dy>>
      [] octant = "O6" -> <<-dy, -dx>>
      [] octant = "O7" -> <<-dy, dx>>
      [] octant = "O8" -> <<dx, -dy>>

\* C14: within each octant dpds_to_dxdy is one-to-one on 0 <= pri, sec <= 128:
\* the pair is recovered from its image (so distinct pairs have distinct
\* images), and transforming the recovered pair gives the image again.
C14_Bijection ==
    mpc = "octant_out" =>
        LET inv == dxdy_to_dpds(oct_in.octant, oct_out[1], oct_out[2])
        IN  /\ inv = <<oct_in.dpri, oct_in.dsec>>
            /\ dpds_to_dxdy(oct_in.octant, inv[1], inv[2]) = oct_out

C14_Witness ==
    /\ mpc = "octant_out"
    /\ oct_in = [octant |-> "O6", dpri |-> 128, dsec |-> 5]
    /\ oct_out = <<-5, -128>>

\* C16 (as claimed): normalizing a zero-magnitude vector, alone or inside
\* Ray::normalized or Line::from_ray, ends in a 'degenerate vector' error
\* and never in non-finite coordinates.
C16_Original ==
    (mpc = "normalized" /\ magnitude_sq(vec_in) = 0) =>
        vec_out.kind = "degenerate_vector"

\* The point of `isect` lies on segment l (collinear with it and between
\* its end points); coordinates are fractions over isect.den.
OnSegment(l) ==
    LET d  == isect.den
        px == isect.xnum
        py == isect.ynum
        Between(a, p, b) ==
            \/ (a * d <= p /\ p <= b * d)
            \/ (b * d <= p /\ p <= a * d)
    IN  /\ (l.x2 - l.x1) * (py - l.y1 * d) = (l.y2 - l.y1) * (px - l.x1 * d)
        /\ Between(l.x1, px, l.x2)
        /\ Between(l.y1, py, l.y2)

\* The probe returned a point with x = 8 and 0 <= y <= 1 that lies on line 0
\* of the line set and on the probe segment.
ProbeHit ==
    /\ isect.some
    /\ isect.xnum = Flt(8) * isect.den
    /\ isect.den > 0
    /\ 0 <= isect.ynum
    /\ isect.ynum <= Flt(1) * isect.den
    /\ OnSegment(lines[1])
    /\ OnSegment(line_dp8)

EndOffset(q, k) ==
    IF q = "Single" THEN Flt(k - 1) + 51
    ELSE IF k = 1 THEN 25
    ELSE IF k % 2 = 0 THEN Flt(k \div 2) - 25
    ELSE Flt((k - 1) \div 2) + 25

\* C18: for every radius and both strategies, every line emitted starts at
\* the tile centre (0.5, 0.5) and ends at primary coordinate 0.5 + radius,
\* and the end-point secondary offsets are the listed ones and strictly
\* increase with the line index.
C18_LineOrder ==
    \A k \in 1..Len(lines) :
        /\ lines[k].x1 = 50
        /\ lines[k].y1 = 50
        /\ lines[k].x2 = 50 + Flt(to_int(rfov))
        /\ lines[k].y2 - 50 = EndOffset(qfactor, k)
        /\ k > 1 => lines[k - 1].y2 < lines[k].y2

C18_Witness ==
    /\ pc = "lines_done"
    /\ rfov = "R32"
    /\ qfactor = "Double"
    /\ Len(lines) = 64
    /\ lines[63].y2 = 50 + Flt(31) + 25
    /\ lines[64].y2 = 50 + Flt(32) - 25

\* Segment l, which runs towards growing x and y, shares a point with the
\* closed square [a, a + 1] x [b, b + 1] (tile units): some t in [0, 1] has
\* a <= x(t) <= a + 1 and b <= y(t) <= b + 1.  Each lower limit of t is
\* compared with each upper limit, cross-multiplied by dx, dy > 0.
SharesSquare(l, a, b) ==
    LET dx  == l.x2 - l.x1
        dy  == l.y2 - l.y1
        xlo == Flt(a) - l.x1
        xhi == Flt(a + 1) - l.x1
        ylo == Flt(b) - l.y1
        yhi == Flt(b + 1) - l.y1
    IN  /\ dx > 0 /\ dy > 0
        /\ xlo <= dx /\ ylo <= dy
        /\ 0 <= xhi /\ 0 <= yhi
        /\ xlo * dy <= yhi * dx
        /\ ylo * dx <= xhi * dy

\* Segment l meets one of the two near edges of the tile at (p, s).
NearEdgeHit(l, p, s) ==
    Intersects(l, EdgeAlongSec(p, s)) \/ Intersects(l, EdgeAlongPri(p, s))

\* Segment l meets one of the four edges of the tile at (p, s).
FourEdgeHit(l, p, s) ==
    \/ NearEdgeHit(l, p, s)
    \/ Intersects(l, EdgeAlongSec(p + 1, s))
    \/ Intersects(l, EdgeAlongPri(p, s + 1))

\* C19 (as claimed): for every node position produced for R16/Single, the
\* origin included, sightline i meets one of the two near edges of the tile
\* exactly when it shares a point with the tile's closed unit square.
C19_Original ==
    (pc = "done" /\ Is16Bit(rfov, qfactor)) =>
        \A k \in 1..Len(nodes) : \A i \in 1..Len(lines) :
            NearEdgeHit(lines[i], nodes[k].dpri, nodes[k].dsec)
                <=> SharesSquare(lines[i], nodes[k].dpri, nodes[k].dsec)

\* C19: for every node position produced for R16/Single other than the
\* origin, bit i of the body mask, which is the test of sightline i against
\* the two near edges, is set exactly when sightline i shares a point with
\* the tile's closed unit square, and exactly when it meets one of the
\* tile's four edges.
C19_NearEdgesSuffice ==
    (pc = "done" /\ Is16Bit(rfov, qfactor)) =>
        \A k \in 2..Len(nodes) : \A i \in 1..Len(lines) :
            LET p == nodes[k].dpri
                s == nodes[k].dsec
            IN  /\ BitSet(nodes[k].body, i - 1) <=> NearEdgeHit(lines[i], p, s)
                /\ BitSet(nodes[k].body, i - 1) <=> SharesSquare(lines[i], p, s)
                /\ BitSet(nodes[k].body, i - 1) <=> FourEdgeHit(lines[i], p, s)

\* A finished build with the node (2, 2), whose sightlines all enter through
\* the near edge along the primary axis and none through the other one.
C19_Witness ==
    /\ pc = "done"
    /\ Is16Bit(rfov, qfactor)
    /\ \E k \in 2..Len(nodes) :
          /\ nodes[k].dpri = 2 /\ nodes[k].dsec = 2
          /\ \E i \in 1..Len(lines) :
                /\ BitSet(nodes[k].body, i - 1)
                /\ ~Intersects(lines[i], EdgeAlongSec(2, 2))
                /\ FourEdgeHit(lines[i], 2, 2)

\* The place of (p, s) among the pairs 1 <= p, 0 <= s <= p taken row by
\* row: the rows 1..p-1 hold 2 + ... + p pairs.
Rank(p, s) == SumRange(2, p + 1) + s + 1

\* C20 (as claimed): the loop visits exactly sum(2..=radius+1) - 1
\* candidate positions.
C20_Original ==
    pc = "done" => iter = SumRange(2, to_int(rfov) + 2) - 1

\* C20: the loop visits exactly sum(2..=radius+1) candidate positions, the
\* seed not among them: the i-th position visited is the i-th pair (pri, sec)
\* with 1 <= pri <= radius and 0 <= sec <= pri, rows in growing pri and sec
\* sweeping 0..=pri, so each pair is visited once, and the last one is
\* (radius, radius).
C20_Enumeration ==
    /\ (pc \in {"build", "done"} /\ iter >= 1) =>
          /\ 1 <= dpri /\ dpri <= to_int(rfov)
          /\ 0 <= dsec /\ dsec <= dpri
          /\ iter = Rank(dpri, dsec)
    /\ pc = "done" =>
          /\ iter = SumRange(2, to_int(rfov) + 2)
          /\ dpri = to_int(rfov)
          /\ dsec = to_int(rfov)

C20_Witness ==
    /\ pc = "done"
    /\ iter = 152
    /\ dpri = 16
    /\ dsec = 16
    /\ dsec_target = 16

\* The two body edges of the tile at (p, s), each with the parameter t of
\* the point where the supporting line of sightline l crosses the edge's
\* line, as the fraction num / den with den > 0: the edge along the secondary
\* axis lies on x = p, the edge along the primary axis on y = s.
EdgeMeets(l, p, s) ==
    { [edge |-> EdgeAlongSec(p, s), num |-> Flt(p) - l.x1, den |-> l.x2 - l.x1],
      [edge |-> EdgeAlongPri(p, s), num |-> Flt(s) - l.y1, den |-> l.y2 - l.y1] }

\* The body edges of the tile at (p, s) that sightline l meets.
MeetsOf(l, p, s) == {m \in EdgeMeets(l, p, s) : Intersects(l, m.edge)}

\* Sightline l first meets the body edges of the tile at (pa, sa) no farther
\* from its start than it first meets those of the tile at (pb, sb): the
\* distance from the start grows with t.
MeetsNoLater(l, pa, sa, pb, sb) ==
    \A mb \in MeetsOf(l, pb, sb) :
        \E ma \in MeetsOf(l, pa, sa) : ma.num * mb.den <= mb.num * ma.den

Oriented(octant, p, s) ==
    LET d == dpds_to_dxdy_flt(octant, p - 50, s - 50)
    IN  <<d.xnum + 50, d.ynum + 50>>

\* The end points of a (pri, sec) segment under an octant's orientation.
OrientedEnds(octant, l) ==
    {Oriented(octant, l.x1, l.y1), Oriented(octant, l.x2, l.y2)}

\* C22: for every octant, the octant's orientation maps wall_n_line(octant)
\* onto the north edge of the unit tile (y = 1, the largest y) and
\* wall_w_line(octant) onto its west edge (x = 0, the smallest x).
C22_WallsOriented ==
    \A o \in DOMAIN walls :
        /\ OrientedEnds(o, walls[o].n) = {<<Flt(0), Flt(1)>>, <<Flt(1), Flt(1)>>}
        /\ OrientedEnds(o, walls[o].w) = {<<Flt(0), Flt(0)>>, <<Flt(0), Flt(1)>>}

\* All eight octants looked up, and the transform applied in octant 6 to the
\* corner (-0.5, 0.5) about the tile centre.
C22_Witness ==
    /\ DOMAIN walls = Octant
    /\ oct_in = [octant |-> "O6", dpri |-> -50, dsec |-> 50]
    /\ oct_out = Point(-50, 50, 1)
    /\ Oriented("O6", Flt(0), Flt(1)) = <<Flt(0), Flt(1)>>

====
